---- MODULE Spec2Model ----
(***************************************************************************)
(* Model of the sprite_ordering demo (src/src/main.rs): two sprites carry  *)
(* a SpriteOrder component, SpriteOrderSystem copies the order into the z  *)
(* of the Transform on every dispatch, and the Space key bumps every order *)
(* modulo 2 from inside GameState::handle_event.                           *)
(***************************************************************************)
EXTENDS Integers, Sequences, FiniteSets, TLC

VARIABLES
    order,            \* SpriteOrder storage: entity -> order (i32)
    transform,        \* Transform storage: entity -> [x, y, z] (f32 values)
    session,          \* "Running", "Terminated" (Trans::Quit) or "Panicked"
    pc,               \* position of the host loop inside the frame
    overflow_checks,  \* build profile: TRUE = debug (checked i32 arithmetic)
    history,          \* order storage as it was before each cycling pass
    frames,           \* number of frames presented so far
    step              \* the operation that produced the current state

vars == <<order, transform, session, pc, overflow_checks, history, frames, step>>

\* ------------------------------------------------------------------ bounds
MaxCycles == 4
MaxFrames == 3

\* ------------------------------------------------------------- i32 and f32
MinI32 == -2147483647 - 1
MaxI32 == 2147483647
TwoPow24 == 16777216

Abs(n) == IF n < 0 THEN -n ELSE n

Panic == [panic |-> TRUE, value |-> 0]
Ok(v) == [panic |-> FALSE, value |-> v]

\* i32 `+`: overflow panics with overflow checks, wraps without them.
I32Add(a, b, checks) ==
    IF b > 0 /\ a > MaxI32 - b
    THEN IF checks THEN Panic ELSE Ok(MinI32 + (b - 1 - (MaxI32 - a)))
    ELSE IF b < 0 /\ a < MinI32 - b
    THEN IF checks THEN Panic ELSE Ok(MaxI32 - ((MinI32 - a) - b - 1))
    ELSE Ok(a + b)

\* Mutant: a zero divisor yields 0 instead of a panic.
I32Rem_zero_divisor_ok(a, b) ==
    IF b = 0 THEN Ok(0)
    ELSE IF a = MinI32 /\ b = -1 THEN Panic
    ELSE IF b = MinI32 THEN (IF a = MinI32 THEN Ok(0) ELSE Ok(a))
    ELSE IF a = MinI32 THEN Ok(-((-(a + Abs(b))) % Abs(b)))
    ELSE IF a >= 0 THEN Ok(a % Abs(b))
    ELSE Ok(-((-a) % Abs(b)))

\* i32 `%`: truncated remainder (sign of the dividend); a zero divisor and
\* MIN % -1 panic in every build profile.
I32Rem(a, b) ==
    IF b = 0 THEN Panic
    ELSE IF a = MinI32 /\ b = -1 THEN Panic
    ELSE IF b = MinI32 THEN (IF a = MinI32 THEN Ok(0) ELSE Ok(a))
    ELSE IF a = MinI32 THEN Ok(-((-(a + Abs(b))) % Abs(b)))
    ELSE IF a >= 0 THEN Ok(a % Abs(b))
    ELSE Ok(-((-a) % Abs(b)))

\* The unit in the last place of the f32 nearest to a magnitude a > 2^24.
RECURSIVE Ulp(_, _)
Ulp(a, u) == IF a \div u < TwoPow24 THEN u ELSE Ulp(a, 2 * u)

\* Round an integer to the nearest f32 (24-bit significand, ties to even).
F32Round(n) ==
    IF n = MinI32 THEN n
    ELSE IF Abs(n) <= TwoPow24 THEN n
    ELSE LET a == Abs(n)
             u == Ulp(a, 2)
             q == a \div u
             r == a % u
             m == IF 2 * r < u THEN q
                  ELSE IF 2 * r > u THEN q + 1
                  ELSE IF q % 2 = 0 THEN q ELSE q + 1
         IN  IF n < 0 THEN -(m * u) ELSE m * u

\* `order as f32`
AsF32(n) == F32Round(n)

\* --------------------------------------------------------------- components
\* Mutant: wraps only once the order has passed max_order.
bump_order_inclusive(self_order, max_order, checks) ==
    LET sum == I32Add(self_order, 1, checks)
    IN  IF sum.panic THEN Panic ELSE I32Rem(sum.value, max_order + 1)

\* Mutant: pushes the sprite forward and never wraps.
bump_order_no_wrap(self_order, max_order, checks) ==
    I32Add(self_order, 1, checks)

\* SpriteOrder::bump_order: self.order = (self.order + 1) % max_order
bump_order(self_order, max_order, checks) ==
    LET sum == I32Add(self_order, 1, checks)
    IN  IF sum.panic THEN Panic ELSE I32Rem(sum.value, max_order)

\* Transform::default(): translation (0, 0, 0)
TransformDefault == [x |-> 0, y |-> 0, z |-> 0]
set_y(t, v) == [t EXCEPT !.y = v]
set_z(t, v) == [t EXCEPT !.z = v]

\* ----------------------------------------------------------------- entities
Background == "background"
CameraEntity == "camera"
CatGirl == "Character Cat Girl"
RoofNorth == "Roof North"

EmptyWorld == [orders |-> <<>>, transforms |-> <<>>]

\* A storage is a function from entity to component; attach one component.
Attach(storage, e, c) ==
    [k \in DOMAIN storage \cup {e} |-> IF k = e THEN c ELSE storage[k]]

add_background(world) ==
    [world EXCEPT !.transforms = Attach(@, Background, TransformDefault)]

add_sprite(world, name, ord) ==
    [orders     |-> Attach(world.orders, name, ord),
     transforms |-> Attach(world.transforms, name,
                           set_y(TransformDefault, F32Round(AsF32(ord) * 20)))]

CameraZ == 100

\* Mutant: the camera keeps the default depth.
add_camera_default(world) ==
    [world EXCEPT !.transforms = Attach(@, CameraEntity, TransformDefault)]

add_camera(world) ==
    [world EXCEPT !.transforms =
        Attach(@, CameraEntity, set_z(TransformDefault, CameraZ))]

\* Mutant: both sprites are given order 0.
add_entities_same_order(world) ==
    add_sprite(add_sprite(add_camera(add_background(world)), CatGirl, 0),
               RoofNorth, 0)

add_entities(world) ==
    add_sprite(add_sprite(add_camera(add_background(world)), CatGirl, 0),
               RoofNorth, 1)

\* The world GameState::on_start leaves behind.
on_start == add_entities(EmptyWorld)

Ordered == DOMAIN on_start.orders
Entities == DOMAIN on_start.transforms

\* ------------------------------------------------------------------- events
NoEvent == [channel |-> "None", kind |-> "None", state |-> "None", key |-> "None"]

WindowEvent(kind, state, key) ==
    [channel |-> "Window", kind |-> kind, state |-> state, key |-> key]

CloseRequested == WindowEvent("CloseRequested", "None", "None")
KeyDown(key) == WindowEvent("KeyboardInput", "Pressed", key)
KeyUp(key) == WindowEvent("KeyboardInput", "Released", key)

\* The StateEvents the host loop can hand to handle_event.
Events ==
    { CloseRequested,
      KeyDown("Escape"), KeyDown("Space"), KeyDown("A"),
      KeyUp("Escape"), KeyUp("Space"),
      WindowEvent("Resized", "None", "None"),
      [channel |-> "Ui", kind |-> "Click", state |-> "None", key |-> "None"] }

is_window(event) == event.channel = "Window"
\* Mutant: the close request is not recognised.
is_close_requested_never(event) == FALSE

is_close_requested(event) == event.kind = "CloseRequested"
\* Mutant: any pressed key counts as the key asked for.
is_key_down_any_key(event, key) ==
    event.kind = "KeyboardInput" /\ event.state = "Pressed"

\* Mutant: a key release counts as a key press.
is_key_down_any_state(event, key) ==
    event.kind = "KeyboardInput" /\ event.key = key

is_key_down(event, key) ==
    event.kind = "KeyboardInput" /\ event.state = "Pressed" /\ event.key = key

\* The modulus handle_event passes to bump_order.
cycle_length == 2

Step(op, event, ord, max_order) ==
    [op |-> op, event |-> event, order_in |-> ord, max_order |-> max_order]

\* ------------------------------------------------------------------ systems
\* Mutant: the system leaves every Transform as it found it.
SpriteOrderSystem_stale(orders, transforms) == transforms

\* Mutant: the system also moves the sprite's y offset with its order.
SpriteOrderSystem_sets_y(orders, transforms) ==
    [e \in DOMAIN transforms |->
        IF e \in DOMAIN orders
        THEN set_y(set_z(transforms[e], AsF32(orders[e])),
                   F32Round(AsF32(orders[e]) * 20))
        ELSE transforms[e]]

\* Mutant: the system joins over Transform alone (absent order reads 0).
SpriteOrderSystem_every_transform(orders, transforms) ==
    [e \in DOMAIN transforms |->
        set_z(transforms[e],
              AsF32(IF e \in DOMAIN orders THEN orders[e] ELSE 0))]

\* Mutant: the system adds the order to z instead of setting it.
SpriteOrderSystem_accumulating(orders, transforms) ==
    [e \in DOMAIN transforms |->
        IF e \in DOMAIN orders
        THEN set_z(transforms[e], transforms[e].z + AsF32(orders[e]))
        ELSE transforms[e]]

\* SpriteOrderSystem::run: join of SpriteOrder and Transform, set_z(order).
SpriteOrderSystem(orders, transforms) ==
    [e \in DOMAIN transforms |->
        IF e \in DOMAIN orders
        THEN set_z(transforms[e], AsF32(orders[e]))
        ELSE transforms[e]]

\* Mutant: the pass stops after the first component of the storage.
BumpAll_first_only(orders, checks) ==
    [e \in DOMAIN orders |->
        IF e = CatGirl THEN bump_order(orders[e], cycle_length, checks)
        ELSE Ok(orders[e])]

\* The bump pass of handle_event over the whole SpriteOrder storage.
BumpAll(orders, checks) ==
    [e \in DOMAIN orders |-> bump_order(orders[e], cycle_length, checks)]

\* -------------------------------------------------------------------- state
Init ==
    /\ order = on_start.orders
    /\ transform = on_start.transforms
    /\ session = "Running"
    /\ pc = "events"
    /\ overflow_checks \in BOOLEAN
    /\ history = <<>>
    /\ frames = 0
    /\ step = Step("on_start", NoEvent, 0, 0)

\* Mutant: the bump pass also writes the new order into the Transform's z.
handle_event_writing_z(event) ==
    /\ session = "Running"
    /\ pc = "events"
    /\ IF is_window(event)
          /\ (is_close_requested(event) \/ is_key_down(event, "Escape"))
       THEN /\ session' = "Terminated"
            /\ step' = Step("handle_event", event, 0, 0)
            /\ UNCHANGED <<order, history, transform>>
       ELSE IF is_window(event) /\ is_key_down(event, "Space")
       THEN /\ Len(history) < MaxCycles
            /\ LET bumped == BumpAll(order, overflow_checks)
               IN  IF \E e \in DOMAIN bumped : bumped[e].panic
                   THEN /\ session' = "Panicked"
                        /\ UNCHANGED <<order, transform>>
                   ELSE /\ session' = session
                        /\ order' = [e \in DOMAIN bumped |-> bumped[e].value]
                        /\ transform' = SpriteOrderSystem(order', transform)
            /\ history' = Append(history, order)
            /\ step' = Step("handle_event", event, 0, cycle_length)
       ELSE /\ step' = Step("handle_event", event, 0, 0)
            /\ UNCHANGED <<order, session, history, transform>>
    /\ UNCHANGED <<pc, overflow_checks, frames>>

\* GameState::handle_event for one event of the frame's event list.
handle_event(event) ==
    /\ session = "Running"
    /\ pc = "events"
    /\ IF is_window(event)
          /\ (is_close_requested(event) \/ is_key_down(event, "Escape"))
       THEN /\ session' = "Terminated"
            /\ step' = Step("handle_event", event, 0, 0)
            /\ UNCHANGED <<order, history>>
       ELSE IF is_window(event) /\ is_key_down(event, "Space")
       THEN /\ Len(history) < MaxCycles
            /\ LET bumped == BumpAll(order, overflow_checks)
               IN  IF \E e \in DOMAIN bumped : bumped[e].panic
                   THEN /\ session' = "Panicked"
                        /\ UNCHANGED order
                   ELSE /\ session' = session
                        /\ order' = [e \in DOMAIN bumped |-> bumped[e].value]
            /\ history' = Append(history, order)
            /\ step' = Step("handle_event", event, 0, cycle_length)
       ELSE /\ step' = Step("handle_event", event, 0, 0)
            /\ UNCHANGED <<order, session, history>>
    /\ UNCHANGED <<transform, pc, overflow_checks, frames>>

HandleEvent == \E event \in Events : handle_event(event)

\* Mutant: update returns without dispatching the systems.
update_without_dispatch ==
    /\ session = "Running"
    /\ pc = "events"
    /\ pc' = "present"
    /\ step' = Step("update", NoEvent, 0, 0)
    /\ UNCHANGED <<order, transform, session, overflow_checks, history, frames>>

\* GameState::update: dispatch the bundle's systems.
update ==
    /\ session = "Running"
    /\ pc = "events"
    /\ transform' = SpriteOrderSystem(order, transform)
    /\ pc' = "present"
    /\ step' = Step("update", NoEvent, 0, 0)
    /\ UNCHANGED <<order, session, overflow_checks, history, frames>>

\* The render pass that ends the frame.
present ==
    /\ session = "Running"
    /\ pc = "present"
    /\ frames < MaxFrames
    /\ frames' = frames + 1
    /\ pc' = "events"
    /\ step' = Step("present", NoEvent, 0, 0)
    /\ UNCHANGED <<order, transform, session, overflow_checks, history>>

Next == HandleEvent \/ update \/ present

Spec == Init /\ [][Next]_vars

\* ------------------------------------------------- bump_order on its own
OrderInputs == {MinI32, -3, -2, -1, 0, 1, 2, MaxI32}
ModulusInputs == {-2, -1, 0, 1, 2, 3}

InitBump ==
    /\ order \in [Ordered -> OrderInputs]
    /\ transform = on_start.transforms
    /\ session = "Running"
    /\ pc = "events"
    /\ overflow_checks \in BOOLEAN
    /\ history = <<>>
    /\ frames = 0
    /\ step = Step("on_start", NoEvent, 0, 0)

\* One call of bump_order(max_order) on the component of entity e.
BumpCall ==
    \E e \in Ordered, max_order \in ModulusInputs :
        /\ session = "Running"
        /\ Len(history) < MaxCycles
        /\ LET r == bump_order(order[e], max_order, overflow_checks)
           IN  IF r.panic
               THEN /\ session' = "Panicked"
                    /\ UNCHANGED order
               ELSE /\ session' = session
                    /\ order' = [order EXCEPT ![e] = r.value]
        /\ history' = Append(history, order)
        /\ step' = Step("bump_order", NoEvent, order[e], max_order)
        /\ UNCHANGED <<transform, pc, overflow_checks, frames>>

NextBump == BumpCall

SpecBump == InitBump /\ [][NextBump]_vars

\* ================================================================== claims
\* Entities that carry both a SpriteOrder and a Transform.
Joined == DOMAIN order \cap DOMAIN transform

\* Every joined entity's z equals its current order.
Projected == \A e \in Joined : transform[e].z = order[e]

\* The step just taken handled the Space key-down.
CyclingStep == step'.op = "handle_event" /\ step'.event = KeyDown("Space")

\* The step just taken was one dispatch of the systems.
TickStep == step'.op = "update"

IsQuit(event) == event = CloseRequested \/ event = KeyDown("Escape")

\* C1 (range invariant): in every state reachable from the assembled scene
\* by ticks and cycling triggers, every entity with a SpriteOrder has
\* 0 <= order < cycle_length.
C1_OrderInRange ==
    \A e \in DOMAIN order : 0 <= order[e] /\ order[e] < 2

C1_Witness ==
    /\ Len(history) = 3
    /\ frames >= 1
    /\ order[CatGirl] = 1
    /\ order[RoofNorth] = 0

\* C2 (projection invariant): right after a tick every joined entity has
\* z = order, and that stays so over every later step that is not a cycling
\* trigger.
C2_ProjectionAfterTick ==
    [][ /\ TickStep => Projected'
        /\ (Projected /\ ~CyclingStep) => Projected' ]_vars

C2_Witness ==
    /\ step.op = "handle_event"
    /\ step.event = KeyDown("A")
    /\ frames >= 1
    /\ Len(history) = 1
    /\ transform[CatGirl].z = 1
    /\ transform[RoofNorth].z = 0
    /\ Projected

\* C3 (cycling contract): the step that handles one Space key-down replaces
\* the order of every entity with a SpriteOrder by (order + 1) mod 2, all in
\* that one step; in the scene orders (0, 1) are (1, 0) after one trigger and
\* the depths are (1, 0) after the tick that follows.
C3_ScenarioA ==
    Len(history) = 1 =>
        /\ order[CatGirl] = 1 /\ order[RoofNorth] = 0
        /\ step.op = "update" =>
              transform[CatGirl].z = 1 /\ transform[RoofNorth].z = 0

C3_CyclingContract ==
    /\ [] C3_ScenarioA
    /\ [][ CyclingStep =>
             /\ DOMAIN order' = DOMAIN order
             /\ \A e \in DOMAIN order : order'[e] = (order[e] + 1) % 2 ]_vars

C3_Witness ==
    /\ Len(history) = 1
    /\ step.op = "update"
    /\ transform[CatGirl].z = 1
    /\ transform[RoofNorth].z = 0

\* C4 (periodicity): cycle_length = 2 cycling passes, with any ticks in
\* between, bring every order back to what it was before them; two triggers
\* from the assembled scene give orders (0, 1) again.
C4_Periodicity ==
    /\ \A i \in 1..Len(history) :
          /\ i + 2 <= Len(history) => history[i + 2] = history[i]
          /\ i + 2 = Len(history) + 1 => order = history[i]
    /\ Len(history) = 2 => (order[CatGirl] = 0 /\ order[RoofNorth] = 1)

C4_Witness ==
    /\ Len(history) = 3
    /\ frames >= 2
    /\ order = history[2]
    /\ order # history[3]

\* C5 (order written only by cycling): a tick, a presentation, a quit event
\* or any event other than the Space key-down leaves every order unchanged.
C5_OrderOnlyByCycling ==
    [][ ~CyclingStep => order' = order ]_vars

C5_Witness ==
    /\ step.op = "handle_event"
    /\ step.event = KeyUp("Space")
    /\ frames >= 1
    /\ Len(history) = 1
    /\ order[CatGirl] = 1

\* C6 (x and y kept): in every reachable state each Transform has the x and
\* y of scene assembly (x = 0; y = initial order * 20 for the sprites, 0 for
\* background and camera), whatever the orders have become.
C6_XYKept ==
    /\ \A e \in DOMAIN transform : transform[e].x = 0
    /\ transform[Background].y = 0
    /\ transform[CameraEntity].y = 0
    /\ transform[CatGirl].y = 0
    /\ transform[RoofNorth].y = 20

C6_Witness ==
    /\ Len(history) = 1
    /\ step.op = "present"
    /\ order[RoofNorth] = 0
    /\ transform[RoofNorth].z = 0
    /\ transform[RoofNorth].y = 20

\* C7 (scenario C): an entity with a Transform and no SpriteOrder keeps its
\* depth over any number of ticks and cycling triggers: the background
\* stays at 0, the camera at 100.
C7_UnorderedDepthKept ==
    /\ Background \notin DOMAIN order
    /\ CameraEntity \notin DOMAIN order
    /\ transform[Background].z = 0
    /\ transform[CameraEntity].z = 100

C7_Witness ==
    /\ frames >= 2
    /\ Len(history) >= 2
    /\ step.op = "update"
    /\ transform[CameraEntity].z = 100

\* C8 (scenario D): a close request or an Escape key-down handled while
\* Running ends the session; that step changes no order and no Transform,
\* and a Terminated session is the state that event left: no tick, cycling
\* or presentation has run since.
C8_QuitStep ==
    (session = "Running" /\ step'.op = "handle_event" /\ IsQuit(step'.event))
        => /\ session' = "Terminated"
           /\ order' = order
           /\ transform' = transform
           /\ history' = history

C8_Frozen ==
    session = "Terminated"
        => /\ session' = "Terminated"
           /\ UNCHANGED <<order, transform, history, frames, pc>>

C8_QuitTerminates ==
    /\ [](session = "Terminated" => (step.op = "handle_event" /\ IsQuit(step.event)))
    /\ [][C8_QuitStep /\ C8_Frozen]_vars

C8_Witness ==
    /\ session = "Terminated"
    /\ step.event = CloseRequested
    /\ Len(history) = 1
    /\ frames >= 1

\* C9 (depth valid at presentation): whenever a frame is about to be
\* presented, the first frame included, every joined entity's z equals its
\* current order, whatever cycling triggers the frame handled.
C9_DepthValidAtPresentation ==
    pc = "present" => Projected

C9_Witness ==
    /\ pc = "present"
    /\ frames = 0
    /\ Len(history) = 1
    /\ transform[CatGirl].z = 1
    /\ transform[RoofNorth].z = 0

\* C10 (configuration error), as claimed: a bump with a modulus <= 0 is
\* never evaluated, it is rejected as a fatal error.
C10_NonPositiveModulusRejected ==
    (step.op = "bump_order" /\ step.max_order <= 0) => session = "Panicked"

\* C10, amended: bump_order has no check of its own and nothing checks the
\* modulus beforehand; a zero modulus is fatal only when the bump is
\* evaluated (remainder by zero), a negative modulus is evaluated without
\* error unless order + 1 overflows.
C10_OnlyZeroModulusFatal ==
    step.op = "bump_order" =>
        /\ step.max_order = 0 => session = "Panicked"
        /\ (step.max_order < 0 /\ step.order_in < MaxI32) => session = "Running"

C10_Witness ==
    /\ step.op = "bump_order"
    /\ step.max_order = 0
    /\ step.order_in = 1
    /\ session = "Panicked"

\* The mathematical (a + 1) mod m for m > 0, computed without leaving the
\* 32-bit range.
SuccMod(a, m) == ((a % m) + 1) % m

\* The component that the latest bump_order call worked on.
Bumped == { e \in DOMAIN order :
              /\ history[Len(history)][e] = step.order_in
              /\ \A o \in DOMAIN order \ {e} : order[o] = history[Len(history)][o] }

\* C11 (true modulo): for every i32 order and every cycle_length > 0, a
\* bump leaves order equal to the mathematical (order + 1) mod cycle_length,
\* a value in [0, cycle_length).
C11_TrueModulo ==
    (step.op = "bump_order" /\ step.max_order > 0) =>
        /\ session = "Running"
        /\ \E e \in Bumped :
              /\ order[e] = SuccMod(step.order_in, step.max_order)
              /\ 0 <= order[e] /\ order[e] < step.max_order

\* C12 (sole writer of depth): the z of a Transform changes only in a tick;
\* the cycling pass, quit events and all other events leave every z as it
\* was, so between a cycling trigger and the next tick z still holds the
\* order from before the cycling.
C12_DepthOnlyByTick ==
    [][ ~TickStep =>
          \A e \in DOMAIN transform : transform'[e].z = transform[e].z ]_vars

C12_Witness ==
    /\ step.op = "handle_event"
    /\ step.event = KeyDown("Space")
    /\ frames >= 1
    /\ Len(history) = 1
    /\ order[CatGirl] = 1
    /\ transform[CatGirl].z = 0
    /\ order[RoofNorth] = 0
    /\ transform[RoofNorth].z = 1

\* C13 (edge-triggered advance): a Space key-down that follows another Space
\* key-down with no release in between belongs to the same press of the key
\* (a held key repeating) and runs no further cycling.
C13_NoCyclingWhileHeld ==
    [][ ( /\ step.op = "handle_event" /\ step.event = KeyDown("Space")
          /\ step'.op = "handle_event" /\ step'.event = KeyDown("Space") )
        => (order' = order /\ history' = history) ]_vars

\* C14 (distinct ranks): the two sprites' orders are pairwise distinct and
\* together are exactly the ranks 0 and 1, at scene assembly and in every
\* state ticks and cycling triggers lead to; so right after a tick their
\* depths differ too.
C14_DistinctRanks ==
    /\ \A a, b \in DOMAIN order : a # b => order[a] # order[b]
    /\ { order[e] : e \in DOMAIN order } = 0..(Cardinality(DOMAIN order) - 1)
    /\ Cardinality(DOMAIN order) = 2
    /\ step.op = "update" =>
          \A a, b \in Joined : a # b => transform[a].z # transform[b].z

C14_Witness ==
    /\ Len(history) = 2
    /\ step.op = "update"
    /\ frames >= 1
    /\ order[CatGirl] = 0
    /\ order[RoofNorth] = 1
    /\ transform[RoofNorth].z = 1

\* C15 (camera standoff): in every reachable state the camera's depth is
\* 100 and every sprite's depth lies in [0, 2), strictly below it.
C15_CameraStandoff ==
    /\ transform[CameraEntity].z = 100
    /\ \A e \in Joined :
          /\ 0 <= transform[e].z /\ transform[e].z < 2
          /\ transform[e].z < transform[CameraEntity].z

C15_Witness ==
    /\ Len(history) = 3
    /\ frames >= 2
    /\ step.op = "present"
    /\ transform[CatGirl].z = 1
    /\ transform[CameraEntity].z = 100

\* C16 (mutual exclusion): a tick and a cycling pass are never one step:
\* the tick writes no order, the cycling pass no Transform, and every state
\* a tick can read has each sprite bumped the same number of times as every
\* other (as many times as there were cycling passes), never only some.
C16_BumpedAlike ==
    \A e \in DOMAIN order :
        order[e] = (on_start.orders[e] + Len(history)) % 2

C17_IgnoredEvents ==
    [][ ( /\ step'.op = "handle_event"
          /\ ~IsQuit(step'.event)
          /\ step'.event # KeyDown("Space") )
        => /\ order' = order
           /\ transform' = transform
           /\ history' = history
           /\ session' = "Running" ]_vars

C17_Witness ==
    /\ step.op = "handle_event"
    /\ step.event.channel = "Ui"
    /\ session = "Running"
    /\ frames >= 1
    /\ Len(history) = 1

\* C18 (tick idempotence): running the system on the state it has just
\* produced changes nothing; a tick that follows a tick with no event in
\* between leaves every component as it was.
C18_RunTwiceIsRunOnce ==
    SpriteOrderSystem(order, SpriteOrderSystem(order, transform))
        = SpriteOrderSystem(order, transform)

C18_TickIdempotent ==
    /\ [] C18_RunTwiceIsRunOnce
    /\ [][ (step.op = "present" /\ TickStep)
           => (transform' = transform /\ order' = order) ]_vars

C18_Witness ==
    /\ step.op = "update"
    /\ frames = 2
    /\ Len(history) = 1
    /\ transform[CatGirl].z = 1
    /\ order[CatGirl] = 1

====
